---------------------------- MODULE Spec2Model ----------------------------
(***************************************************************************)
(* Model of src/src/geodesy_concepts.py: a script that checks, at import   *)
(* time, that the CRS / transformation / geodesic libraries load, and then *)
(* runs three demonstration steps in sequence (hierarchy inspection, datum *)
(* shift, error calculation), printing to standard output.                 *)
(*                                                                         *)
(* The libraries are the environment.  Every call into them either returns *)
(* a value or raises; what it answers is chosen the first time a request   *)
(* is made and remembered in `answers`, so that the same request gets the  *)
(* same answer for the rest of the behaviour, also across process runs.    *)
(*                                                                         *)
(* Numbers are fixed point: coordinates in units of 1e-7 degree, distances *)
(* in millimetres, printed figures in units of their last printed digit.   *)
(***************************************************************************)
EXTENDS Integers, Sequences, FiniteSets, TLC

\* ------------------------------------------------------------- bounds
\* Number of times the script is run, one process after the other.
MaxRuns == 2
\* The transformation may move each coordinate by -MaxShift..MaxShift steps.
MaxShift == 1
\* The geodesic solver may return DistBase .. DistBase + MaxDistSteps mm.
MaxDistSteps == 6

\* ------------------------------------------------------------- literals
\* lat_nad27 = 39.224079 and lon_nad27 = -98.541802, in 1e-7 degree.
LatNad27 == 392240790
LonNad27 == -985418020
\* srs.ImportFromEPSG(4326)
EpsgWgs84 == 4326
\* distance_meters * 3.28084, the factor in units of 1e-5.
FeetFactor == 328084

\* One shift step of the transformation service, in 1e-7 degree: a fraction
\* of the last digit that "{:.6f}" prints, so that the formatting rounds.
ShiftStep == 3
\* A distance of 27 m, the order of the NAD27 -> WGS84 offset in Kansas, in mm.
DistBase == 27000

\* ------------------------------------------------------------- formatting
\* Round to the nearest, ties to even: the quotient q and remainder r of a
\* division by d.
HalfEven(q, r, d) ==
    IF 2 * r < d THEN q
    ELSE IF 2 * r > d THEN q + 1
    ELSE IF q % 2 = 0 THEN q ELSE q + 1

\* format(v, ".Nf") on a fixed-point value: n in units of 1/d of the last
\* printed digit.
RoundHalfEven(n, d) == HalfEven(n \div d, n % d, d)

\* f"{lat_wgs84:.6f}": 1e-7 degree to 1e-6 degree.
Fmt6(v) == RoundHalfEven(v, 10)

\* f"{distance_meters:.2f}": millimetres to centimetres.
MetersPrinted(mm) == RoundHalfEven(mm, 10)

FeetPrinted_WrongFactor(mm) == RoundHalfEven(mm * 3281, 10000)

FeetPrinted_FromRoundedMeters(mm) ==
    RoundHalfEven(MetersPrinted(mm) * FeetFactor, 100000)

\* f"{distance_meters * 3.28084:.2f}": mm times the factor is in 1e-8 ft and
\* is rounded to 1e-2 ft.  The product is formed in two parts (factor =
\* 1000 * hi + lo) so that no intermediate value leaves 32 bits.
FeetPrinted(mm) ==
    LET hi == mm * (FeetFactor \div 1000)
        lo == mm * (FeetFactor % 1000)
        rest == 1000 * (hi % 1000) + lo
    IN  HalfEven((hi \div 1000) + (rest \div 1000000), rest % 1000000, 1000000)

\* ------------------------------------------------------------- output lines
Line(t, s, x, y) == [t |-> t, s |-> s, x |-> x, y |-> y]
Text(t) == Line(t, "", 0, 0)

\* print_header(title): a blank line and the rule, the title, the rule.
print_header(title) ==
    << Text(""), Text("===="), Line("header", title, 0, 0), Text("====") >>

\* ------------------------------------------------------------- services
Request(fn, s, n) == [fn |-> fn, s |-> s, n |-> n]
Returned(s, n) == [raise |-> "", s |-> s, n |-> n]
Raised(cls, detail) == [raise |-> cls, s |-> detail, n |-> << >>]

\* The ways "from osgeo import osr" / "from pyproj import Transformer, Geod"
\* can end: the names are bound, or the import raises.
ImportReplies ==
    { Returned("", << >>),
      Raised("ModuleNotFoundError", "No module named"),
      Raised("ImportError", "cannot import name"),
      Raised("OSError", "cannot load library") }

\* The EPSG registry entry the script dissects: 4326 holds datum 6326 and
\* ellipsoid 7030.  key << >> is GetAuthorityCode(None).
AuthorityCode(code, key) ==
    IF code # 4326 THEN "None"
    ELSE IF key = << >> THEN "4326"
    ELSE IF key = << "DATUM" >> THEN "6326"
    ELSE IF key = << "SPHEROID" >> THEN "7030"
    ELSE "None"

AttrValue(code, key) ==
    IF code # 4326 THEN "None"
    ELSE IF key = << >> THEN "WGS 84"
    ELSE IF key = << "DATUM" >> THEN "WGS_1984"
    ELSE IF key = << "SPHEROID" >> THEN "WGS 84 ellipsoid"
    ELSE "None"

Shifts == { d * ShiftStep : d \in (0 - MaxShift) .. MaxShift }
Azimuths == { 93000, -87000 }

\* What a library call may answer: it raises, or returns a value.
Replies(req) ==
    IF req.fn = "import" THEN ImportReplies
    ELSE { Raised("RuntimeError", req.fn) } \cup
      ( IF req.fn = "GetAuthorityCode"
          THEN { Returned(AuthorityCode(req.n[1], req.s), << >>) }
        ELSE IF req.fn \in { "GetName", "GetAttrValue" }
          THEN { Returned(AttrValue(req.n[1], req.s), << >>) }
        ELSE IF req.fn = "transform"
          THEN { Returned("", << req.n[1] + dx, req.n[2] + dy >>) :
                   dx \in Shifts, dy \in Shifts }
        ELSE IF req.fn = "inv"
          THEN { Returned("", << az, az - 180000, DistBase + i >>) :
                   az \in Azimuths, i \in 0 .. MaxDistSteps }
        ELSE { Returned("", << >>) } )

\* ------------------------------------------------------------- state
VARIABLES
    run,         \* which process run this is, 1 .. MaxRuns
    pc,          \* the statement the process is at
    imported,    \* the library names bound in the module namespace
    exc,         \* the exception bound to `e` in the import guard
    locals,      \* the local variables of the three steps and of main
    output,      \* the lines written to standard output by this process
    calls,       \* the library calls made by this process, in order
    outcome,     \* "running", "missing_dependency", "uncaught", "success"
    exitStatus,  \* the exit status, -1 while the process runs
    checks,      \* how many times this process entered the import guard
    started,     \* per step, how many times this process entered it
    completed,   \* per step, how many times this process returned from it
    answers,     \* environment: request -> the answer the libraries give
    history      \* output and outcome of the finished process runs

vars == << run, pc, imported, exc, locals, output, calls, outcome, exitStatus,
           checks, started, completed, answers, history >>

Steps == { "inspect", "shift", "calc" }

NoLocals ==
    [ srs |-> 0, datum_name |-> "", datum_code |-> "",
      ellipsoid_name |-> "", ellipsoid_code |-> "",
      lat_nad27 |-> 0, lon_nad27 |-> 0,
      transformer |-> << >>, lon_wgs84 |-> 0, lat_wgs84 |-> 0,
      coords_nad27 |-> << >>, coords_wgs84 |-> << >>,
      coord_nad27 |-> << >>, coord_wgs84 |-> << >>,
      lon_old |-> 0, lat_old |-> 0, lon_new |-> 0, lat_new |-> 0,
      geod |-> "", distance_meters |-> 0 ]

\* A process that has just been started: nothing imported, nothing printed.
ProcessStart ==
    /\ pc = "import_osr"
    /\ imported = { }
    /\ exc = Returned("", << >>)
    /\ locals = NoLocals
    /\ output = << >>
    /\ calls = << >>
    /\ outcome = "running"
    /\ exitStatus = -1
    /\ checks = 0
    /\ started = [ s \in Steps |-> 0 ]
    /\ completed = [ s \in Steps |-> 0 ]

Init ==
    /\ run = 1
    /\ ProcessStart
    /\ answers = << >>
    /\ history = << >>


\* ------------------------------------------------------------- library calls
Memo(f, req, rep) ==
    [ r \in DOMAIN f \cup { req } |-> IF r = req THEN rep ELSE f[r] ]

\* The environment answers req with rep: the answer it gave before, or a
\* fresh one that it gives from now on.
Answer(req, rep) ==
    /\ rep \in Replies(req)
    /\ IF req \in DOMAIN answers
         THEN rep = answers[req] /\ answers' = answers
         ELSE answers' = Memo(answers, req, rep)

\* A call into osr / pyproj made by one of the three steps.
ServiceCall(req, rep) ==
    /\ Answer(req, rep)
    /\ calls' = Append(calls, req)

Uncaught_Swallowed ==
    /\ pc' = "done"
    /\ outcome' = "success"
    /\ exitStatus' = 0
    /\ UNCHANGED << imported, exc, locals, output, started, completed >>

\* An exception nobody catches: it leaves the step and main, the interpreter
\* writes the traceback to standard error and exits with status 1.
Uncaught ==
    /\ pc' = "done"
    /\ outcome' = "uncaught"
    /\ exitStatus' = 1
    /\ UNCHANGED << imported, exc, locals, output, started, completed >>

\* The statement ran: control moves on with new locals and new output.
Continue(next, loc, lines) ==
    /\ pc' = next
    /\ locals' = loc
    /\ output' = output \o lines
    /\ UNCHANGED << imported, exc, outcome, exitStatus >>

\* ------------------------------------------------------------- import guard
\* except ImportError: the classes the clause matches.
IsImportError(cls) == cls \in { "ImportError", "ModuleNotFoundError" }

ImportStatement(module, names, next) ==
    \E rep \in ImportReplies :
        /\ Answer(Request("import", << module >>, << >>), rep)
        /\ IF rep.raise = ""
             THEN /\ imported' = imported \cup names
                  /\ pc' = next
                  /\ UNCHANGED << exc, outcome, exitStatus >>
             ELSE IF IsImportError(rep.raise)
             THEN /\ exc' = rep
                  /\ pc' = "except"
                  /\ UNCHANGED << imported, outcome, exitStatus >>
             ELSE /\ pc' = "done"
                  /\ outcome' = "uncaught"
                  /\ exitStatus' = 1
                  /\ UNCHANGED << imported, exc >>
        /\ UNCHANGED << run, locals, output, calls, started, completed, history >>

\* try: from osgeo import osr
ImportOsr ==
    /\ pc = "import_osr"
    /\ checks' = checks + 1
    /\ ImportStatement("osgeo.osr", { "osr" }, "import_pyproj")

\* from pyproj import Transformer, Geod
ImportPyproj ==
    /\ pc = "import_pyproj"
    /\ checks' = checks
    /\ ImportStatement("pyproj", { "Transformer", "Geod" }, "guard")

MissingLibrariesMessage(e) ==
    << Text("Error: Missing required libraries."),
       Line("Details:", e.s, 0, 0),
       Text("Please install them using: pip install gdal pyproj") >>

ImportErrorHandler_FallThrough ==
    /\ pc = "except"
    /\ output' = output \o MissingLibrariesMessage(exc)
    /\ pc' = "guard"
    /\ UNCHANGED << run, imported, exc, locals, calls, outcome, exitStatus,
                    checks, started, completed, answers, history >>

\* except ImportError as e: three prints and sys.exit(1)
ImportErrorHandler ==
    /\ pc = "except"
    /\ output' = output \o MissingLibrariesMessage(exc)
    /\ pc' = "done"
    /\ outcome' = "missing_dependency"
    /\ exitStatus' = 1
    /\ UNCHANGED << run, imported, exc, locals, calls, checks, started,
                    completed, answers, history >>

\* if __name__ == "__main__": main()
ModuleGuard ==
    /\ pc = "guard"
    /\ pc' = "main"
    /\ UNCHANGED << run, imported, exc, locals, output, calls, outcome,
                    exitStatus, checks, started, completed, answers, history >>

\* ------------------------------------------------------------- main
RunningLine_Stateful == Line("Running Geodesy Concept Script...", "", run, 0)

RunningLine == Text("Running Geodesy Concept Script...")

\* print("Running Geodesy Concept Script..."), then call step 1
Main ==
    /\ pc = "main"
    /\ Continue("inspect", locals, << RunningLine >>)
    /\ UNCHANGED << run, calls, checks, started, completed, answers, history >>


Enter(step) == started' = [ started EXCEPT ![step] = @ + 1 ] /\ completed' = completed
Return(step) == completed' = [ completed EXCEPT ![step] = @ + 1 ] /\ started' = started
Inside == UNCHANGED << started, completed >>
Process == UNCHANGED << run, checks, history >>

\* ------------------------------------------------------------- step 1
\* print_header(...); print("Goal: ...\n")
InspectBegin ==
    /\ pc = "inspect"
    /\ Continue("srs_new", locals,
                print_header("1. INSPECTING THE HIERARCHY (EPSG:4326)")
                \o << Text("Goal: Prove that EPSG:4326 is a container for other codes."),
                      Text("") >>)
    /\ Enter("inspect")
    /\ UNCHANGED << calls, answers >>
    /\ Process

\* srs = osr.SpatialReference()
InspectNewSrs ==
    /\ pc = "srs_new"
    /\ \E rep \in Replies(Request("osr.SpatialReference", << >>, << >>)) :
        /\ ServiceCall(Request("osr.SpatialReference", << >>, << >>), rep)
        /\ IF rep.raise # "" THEN Uncaught
           ELSE Continue("srs_import", [ locals EXCEPT !.srs = 0 ], << >>) /\ Inside
    /\ Process

ImportRequest_Nad27 == Request("ImportFromEPSG", << >>, << 4267 >>)

\* srs.ImportFromEPSG(4326)
ImportRequest == Request("ImportFromEPSG", << >>, << EpsgWgs84 >>)

InspectImport ==
    /\ pc = "srs_import"
    /\ \E rep \in Replies(ImportRequest) :
        /\ ServiceCall(ImportRequest, rep)
        /\ IF rep.raise # "" THEN Uncaught
           ELSE Continue("srs_name", [ locals EXCEPT !.srs = ImportRequest.n[1] ], << >>)
                /\ Inside
    /\ Process

\* print(f"PARENT SYSTEM: {srs.GetName()}")
InspectParent ==
    /\ pc = "srs_name"
    /\ \E rep \in Replies(Request("GetName", << >>, << locals.srs >>)) :
        /\ ServiceCall(Request("GetName", << >>, << locals.srs >>), rep)
        /\ IF rep.raise # "" THEN Uncaught
           ELSE Continue("srs_code", locals, << Line("PARENT SYSTEM:", rep.s, 0, 0) >>)
                /\ Inside
    /\ Process

\* print(f" -> Authority Code: {srs.GetAuthorityCode(None)} (The 'Whole Car')")
InspectParentCode ==
    /\ pc = "srs_code"
    /\ \E rep \in Replies(Request("GetAuthorityCode", << >>, << locals.srs >>)) :
        /\ ServiceCall(Request("GetAuthorityCode", << >>, << locals.srs >>), rep)
        /\ IF rep.raise # "" THEN Uncaught
           ELSE Continue("datum_name", locals,
                         << Line(" -> Authority Code:", rep.s, 0, 0) >>)
                /\ Inside
    /\ Process

\* datum_name = srs.GetAttrValue("DATUM")
InspectDatumName ==
    /\ pc = "datum_name"
    /\ \E rep \in Replies(Request("GetAttrValue", << "DATUM" >>, << locals.srs >>)) :
        /\ ServiceCall(Request("GetAttrValue", << "DATUM" >>, << locals.srs >>), rep)
        /\ IF rep.raise # "" THEN Uncaught
           ELSE Continue("datum_code", [ locals EXCEPT !.datum_name = rep.s ], << >>)
                /\ Inside
    /\ Process

DatumCodeRequest_Spheroid(srs) == Request("GetAuthorityCode", << "SPHEROID" >>, << srs >>)

\* srs.GetAuthorityCode("DATUM")
DatumCodeRequest(srs) == Request("GetAuthorityCode", << "DATUM" >>, << srs >>)

\* datum_code = srs.GetAuthorityCode("DATUM") and the three prints after it
InspectDatumCode ==
    /\ pc = "datum_code"
    /\ \E rep \in Replies(DatumCodeRequest(locals.srs)) :
        /\ ServiceCall(DatumCodeRequest(locals.srs), rep)
        /\ IF rep.raise # "" THEN Uncaught
           ELSE Continue("ell_name", [ locals EXCEPT !.datum_code = rep.s ],
                         << Text(""),
                            Line("  -> CHILD COMPONENT (DATUM):", locals.datum_name, 0, 0),
                            Line("  -> Datum Code:", rep.s, 0, 0),
                            Text("     (Matches the '6326' seen in your assets/image_28e358.png)") >>)
                /\ Inside
    /\ Process

\* ellipsoid_name = srs.GetAttrValue("SPHEROID")
InspectEllipsoidName ==
    /\ pc = "ell_name"
    /\ \E rep \in Replies(Request("GetAttrValue", << "SPHEROID" >>, << locals.srs >>)) :
        /\ ServiceCall(Request("GetAttrValue", << "SPHEROID" >>, << locals.srs >>), rep)
        /\ IF rep.raise # "" THEN Uncaught
           ELSE Continue("ell_code", [ locals EXCEPT !.ellipsoid_name = rep.s ], << >>)
                /\ Inside
    /\ Process

\* ellipsoid_code = srs.GetAuthorityCode("SPHEROID"), the two prints after it,
\* and the return to main
InspectEllipsoidCode ==
    /\ pc = "ell_code"
    /\ \E rep \in Replies(Request("GetAuthorityCode", << "SPHEROID" >>, << locals.srs >>)) :
        /\ ServiceCall(Request("GetAuthorityCode", << "SPHEROID" >>, << locals.srs >>), rep)
        /\ IF rep.raise # "" THEN Uncaught
           ELSE Continue("shift", [ locals EXCEPT !.ellipsoid_code = rep.s ],
                         << Text(""),
                            Line("    -> GRANDCHILD COMPONENT (ELLIPSOID):",
                                 locals.ellipsoid_name, 0, 0),
                            Line("    -> Ellipsoid Code:", rep.s, 0, 0) >>)
                /\ Return("inspect")
    /\ Process


\* ------------------------------------------------------------- step 2
\* print_header(...), the goal, the two literals and the two prints of them
ShiftBegin ==
    /\ pc = "shift"
    /\ Continue("from_crs",
                [ locals EXCEPT !.lat_nad27 = LatNad27, !.lon_nad27 = LonNad27 ],
                print_header("2. THE DATUM SHIFT (Moving the Anchor)")
                \o << Text("Goal: Show that the 'same' physical spot has different numbers in different datums."),
                      Text(""),
                      Text("Physical Point: Meades Ranch, Kansas"),
                      Line("Original Coordinate (NAD27 / EPSG:4267):", "",
                           LatNad27, LonNad27) >>)
    /\ Enter("shift")
    /\ UNCHANGED << calls, answers >>
    /\ Process

FromCrsRequest_Reversed ==
    Request("Transformer.from_crs", << "EPSG:4326", "EPSG:4267" >>, << 1 >>)

\* Transformer.from_crs("EPSG:4267", "EPSG:4326", always_xy=True)
FromCrsRequest ==
    Request("Transformer.from_crs", << "EPSG:4267", "EPSG:4326" >>, << 1 >>)

ShiftFromCrs ==
    /\ pc = "from_crs"
    /\ \E rep \in Replies(FromCrsRequest) :
        /\ ServiceCall(FromCrsRequest, rep)
        /\ IF rep.raise # "" THEN Uncaught
           ELSE Continue("transform", [ locals EXCEPT !.transformer = FromCrsRequest.s ],
                         << >>)
                /\ Inside
    /\ Process

TransformRequest_LatLon(l) ==
    Request("transform", l.transformer, << l.lat_nad27, l.lon_nad27 >>)

\* transformer.transform(lon_nad27, lat_nad27)
TransformRequest(l) ==
    Request("transform", l.transformer, << l.lon_nad27, l.lat_nad27 >>)

ShiftResult_Swapped(l, lon_wgs84, lat_wgs84) ==
    << << l.lon_nad27, l.lat_nad27 >>, << lat_wgs84, lon_wgs84 >> >>

\* return (lon_nad27, lat_nad27), (lon_wgs84, lat_wgs84)
ShiftResult(l, lon_wgs84, lat_wgs84) ==
    << << l.lon_nad27, l.lat_nad27 >>, << lon_wgs84, lat_wgs84 >> >>

\* lon_wgs84, lat_wgs84 = transformer.transform(...), the print of the pair,
\* the return, and main's coords_nad27, coords_wgs84 = <the returned value>
ShiftTransform ==
    /\ pc = "transform"
    /\ \E rep \in Replies(TransformRequest(locals)) :
        /\ ServiceCall(TransformRequest(locals), rep)
        /\ IF rep.raise # "" THEN Uncaught
           ELSE LET lon_wgs84 == rep.n[1]
                    lat_wgs84 == rep.n[2]
                    ret == ShiftResult(locals, lon_wgs84, lat_wgs84)
                IN  /\ Continue("calc",
                          [ locals EXCEPT !.lon_wgs84 = lon_wgs84,
                                          !.lat_wgs84 = lat_wgs84,
                                          !.coords_nad27 = ret[1],
                                          !.coords_wgs84 = ret[2] ],
                          << Line("Transformed Coordinate (WGS84 / EPSG:4326):", "",
                                  Fmt6(lat_wgs84), Fmt6(lon_wgs84)) >>)
                    /\ Return("shift")
    /\ Process

\* ------------------------------------------------------------- step 3
CalcArguments_Swapped(l) == << l.coords_wgs84, l.coords_nad27 >>

\* calculate_error(coords_nad27, coords_wgs84)
CalcArguments(l) == << l.coords_nad27, l.coords_wgs84 >>

\* the call from main, print_header(...), the goal, and the two unpackings
CalcBegin ==
    /\ pc = "calc"
    /\ LET coord_nad27 == CalcArguments(locals)[1]
           coord_wgs84 == CalcArguments(locals)[2]
       IN  Continue("geod",
                [ locals EXCEPT !.coord_nad27 = coord_nad27,
                                !.coord_wgs84 = coord_wgs84,
                                !.lon_old = coord_nad27[1], !.lat_old = coord_nad27[2],
                                !.lon_new = coord_wgs84[1], !.lat_new = coord_wgs84[2] ],
                print_header("3. THE REAL WORLD ERROR")
                \o << Text("Goal: Measure the mistake if you confuse the Datums."),
                      Text("") >>)
    /\ Enter("calc")
    /\ UNCHANGED << calls, answers >>
    /\ Process

\* geod = Geod(ellps='WGS84')
CalcGeod ==
    /\ pc = "geod"
    /\ \E rep \in Replies(Request("Geod", << "WGS84" >>, << >>)) :
        /\ ServiceCall(Request("Geod", << "WGS84" >>, << >>), rep)
        /\ IF rep.raise # "" THEN Uncaught
           ELSE Continue("inv", [ locals EXCEPT !.geod = "WGS84" ], << >>) /\ Inside
    /\ Process

InvRequest_OldFirst(l) ==
    Request("inv", << l.geod >>, << l.lon_old, l.lat_old, l.lon_new, l.lat_new >>)

\* geod.inv(lon_new, lat_new, lon_old, lat_old)
InvRequest(l) ==
    Request("inv", << l.geod >>, << l.lon_new, l.lat_new, l.lon_old, l.lat_old >>)

DistanceOf_Azimuth(result) == result[1]

\* _, _, distance_meters = <the solver's result>
DistanceOf(result) == result[3]

\* the three prints of the result and the two of the conclusion
ErrorReport(distance_meters) ==
    << Text("If you input the NAD27 coordinates into a WGS84 GPS..."),
       Line("You would be off by:", "meters", MetersPrinted(distance_meters), 0),
       Line("(", "feet)", FeetPrinted(distance_meters), 0),
       Text(""),
       Text("CONCLUSION: 4326 (The System) defines WHICH Datum (6326) to use."),
       Text("If you use the wrong system, you use the wrong anchor!") >>

\* _, _, distance_meters = geod.inv(...), the prints, and the return to main
CalcInv ==
    /\ pc = "inv"
    /\ \E rep \in Replies(InvRequest(locals)) :
        /\ ServiceCall(InvRequest(locals), rep)
        /\ IF rep.raise # "" THEN Uncaught
           ELSE Continue("complete",
                         [ locals EXCEPT !.distance_meters = DistanceOf(rep.n) ],
                         ErrorReport(DistanceOf(rep.n)))
                /\ Return("calc")
    /\ Process

\* ------------------------------------------------------------- end of main
MainComplete_Silent ==
    /\ pc = "complete"
    /\ pc' = "done"
    /\ outcome' = "success"
    /\ exitStatus' = 0
    /\ UNCHANGED << run, imported, exc, locals, output, calls, checks, started,
                    completed, answers, history >>

\* print_header("SCRIPT COMPLETE"); main returns and the interpreter exits 0
MainComplete ==
    /\ pc = "complete"
    /\ output' = output \o print_header("SCRIPT COMPLETE")
    /\ pc' = "done"
    /\ outcome' = "success"
    /\ exitStatus' = 0
    /\ UNCHANGED << run, imported, exc, locals, calls, checks, started,
                    completed, answers, history >>

\* ------------------------------------------------------------- next run
\* The script is started again: a new process, which inherits nothing from
\* the one that ended; the libraries answer as they did.
Relaunch ==
    /\ pc = "done"
    /\ run < MaxRuns
    /\ run' = run + 1
    /\ history' = Append(history, [ output |-> output, outcome |-> outcome,
                                    exitStatus |-> exitStatus ])
    /\ pc' = "import_osr"
    /\ imported' = { }
    /\ exc' = Returned("", << >>)
    /\ locals' = NoLocals
    /\ output' = << >>
    /\ calls' = << >>
    /\ outcome' = "running"
    /\ exitStatus' = -1
    /\ checks' = 0
    /\ started' = [ s \in Steps |-> 0 ]
    /\ completed' = [ s \in Steps |-> 0 ]
    /\ UNCHANGED answers

\* ------------------------------------------------------------- specification
\* One statement of the running process.
Step ==
    \/ ImportOsr
    \/ ImportPyproj
    \/ ImportErrorHandler
    \/ ModuleGuard
    \/ Main
    \/ InspectBegin
    \/ InspectNewSrs
    \/ InspectImport
    \/ InspectParent
    \/ InspectParentCode
    \/ InspectDatumName
    \/ InspectDatumCode
    \/ InspectEllipsoidName
    \/ InspectEllipsoidCode
    \/ ShiftBegin
    \/ ShiftFromCrs
    \/ ShiftTransform
    \/ CalcBegin
    \/ CalcGeod
    \/ CalcInv
    \/ MainComplete

Next == Step \/ Relaunch

Spec == Init /\ [][Next]_vars

\* The interpreter runs the process to its end: it is single-threaded and
\* every library call returns or raises.
FairSpec == Spec /\ WF_vars(Step)


\* ------------------------------------------------------------- vocabulary
Libraries == { "osr", "Transformer", "Geod" }
Done == pc = "done"
AllCompleted == \A s \in Steps : completed[s] = 1
Printed(line) == \E i \in 1 .. Len(output) : output[i] = line
PrintedAt(t) == CHOOSE i \in 1 .. Len(output) : output[i].t = t
CompleteHeader == Line("header", "SCRIPT COMPLETE", 0, 0)
CallsOf(fn) == { i \in 1 .. Len(calls) : calls[i].fn = fn }
\* The import that raised in this process.
FailedImport ==
    IF answers[Request("import", << "osgeo.osr" >>, << >>)].raise # ""
      THEN answers[Request("import", << "osgeo.osr" >>, << >>)]
      ELSE answers[Request("import", << "pyproj" >>, << >>)]
\* A library call of this process raised.
RaisedAt(i) == answers[calls[i]].raise # ""

\* ------------------------------------------------------------- C1
\* C1 (as claimed): whenever the process has ended without all three library
\* names bound, that is, one of the two imports failed in whatever way, it has
\* ended by sys.exit(1) after printing the explanation and the detail of the
\* failure, and not by an unhandled exception.
C1_AnyImportFailureExitsFriendly ==
    (Done /\ imported # Libraries) =>
        /\ outcome = "missing_dependency"
        /\ exitStatus = 1
        /\ output = << Text("Error: Missing required libraries."),
                       Line("Details:", FailedImport.s, 0, 0),
                       Text("Please install them using: pip install gdal pyproj") >>

\* ------------------------------------------------------------- C2
\* C2: the import guard is entered once per process, before anything else:
\* a process that is past the guard has all three names bound; no step has
\* started, no library call has been made and nothing but the guard's own
\* message has been printed unless the names are bound; and a process whose
\* guard failed is in the handler or has ended, having done none of those.
C2_CheckOnceBeforeAll ==
    /\ checks <= 1
    /\ pc # "import_osr" => checks = 1
    /\ pc \notin { "import_osr", "import_pyproj", "except", "done" }
          => imported = Libraries
    /\ imported # Libraries =>
          /\ \A s \in Steps : started[s] = 0 /\ completed[s] = 0
          /\ calls = << >>
          /\ locals = NoLocals
          /\ output = << >> \/ (Done /\ output = MissingLibrariesMessage(exc))
    /\ (Done /\ imported # Libraries) => outcome \in { "missing_dependency", "uncaught" }

C2_Witness == Done /\ outcome = "missing_dependency" /\ checks = 1 /\ imported = { "osr" }

\* ------------------------------------------------------------- C3
\* C3: each step is entered at most once, the datum shift only after the
\* hierarchy inspection has returned and the error calculation only after
\* the datum shift has returned, and the error calculation's two parameters
\* are the two pairs the datum shift returned: (lon_nad27, lat_nad27) and
\* (lon_wgs84, lat_wgs84).
C3_FixedOrder ==
    /\ \A s \in Steps : started[s] <= 1 /\ completed[s] <= started[s]
    /\ started["shift"] <= completed["inspect"]
    /\ started["calc"] <= completed["shift"]
    /\ completed["shift"] = 1 =>
          /\ locals.coords_nad27 = << locals.lon_nad27, locals.lat_nad27 >>
          /\ locals.coords_wgs84 = << locals.lon_wgs84, locals.lat_wgs84 >>
    /\ started["calc"] = 1 =>
          /\ locals.coord_nad27 = << locals.lon_nad27, locals.lat_nad27 >>
          /\ locals.coord_wgs84 = << locals.lon_wgs84, locals.lat_wgs84 >>

C3_Witness ==
    /\ started["calc"] = 1
    /\ completed["shift"] = 1
    /\ locals.coord_wgs84 = << LonNad27 - ShiftStep, LatNad27 + ShiftStep >>

\* ------------------------------------------------------------- C4
\* C4: when a library call of a step has raised, it is the last call the
\* process made and was made once, the process has ended with the uncaught
\* error (exit status neither 0 nor by sys.exit), the step it was made in has
\* not returned, every other step that started had returned before, the
\* SCRIPT COMPLETE header is not printed; and from then on the process prints
\* nothing, calls nothing and starts nothing.
C4_FailureState ==
    \A i \in 1 .. Len(calls) : RaisedAt(i) =>
        /\ i = Len(calls)
        /\ \A j \in 1 .. Len(calls) : calls[j] = calls[i] => j = i
        /\ Done
        /\ outcome = "uncaught"
        /\ exitStatus = 1
        /\ ~ Printed(CompleteHeader)
        /\ \E s \in Steps :
              /\ started[s] = 1 /\ completed[s] = 0
              /\ \A u \in Steps \ { s } : started[u] = completed[u]

C4_AfterFailure ==
    (calls # << >> /\ RaisedAt(Len(calls)) /\ run' = run) =>
        /\ output' = output
        /\ calls' = calls
        /\ started' = started
        /\ completed' = completed
        /\ locals' = locals
        /\ outcome' = outcome

\* C4: a library call that raises is fatal: C4_FailureState holds in every
\* state and C4_AfterFailure of every step.
C4_RuntimeFailureIsFatal == [] C4_FailureState /\ [][ C4_AfterFailure ]_vars

C4_Witness ==
    /\ Done
    /\ outcome = "uncaught"
    /\ calls # << >>
    /\ calls[Len(calls)].fn = "Transformer.from_crs"
    /\ RaisedAt(Len(calls))
    /\ started["shift"] = 1


\* ------------------------------------------------------------- C5
\* C5: once the datum shift has returned, the process has built exactly one
\* transformer, from EPSG:4267 to EPSG:4326 with always_xy, and has then
\* called it exactly once, with (-98.541802, 39.224079), longitude first;
\* the first pair returned is that literal pair, the second is the pair the
\* transformation answered, in the order it answered it; and the two printed
\* lines show latitude first.
C5_DatumShift ==
    completed["shift"] = 1 =>
        LET req == Request("transform", << "EPSG:4267", "EPSG:4326" >>,
                           << -985418020, 392240790 >>)
        IN  /\ Cardinality(CallsOf("Transformer.from_crs")) = 1
            /\ Cardinality(CallsOf("transform")) = 1
            /\ \A i \in CallsOf("Transformer.from_crs") :
                  /\ calls[i] = Request("Transformer.from_crs",
                                        << "EPSG:4267", "EPSG:4326" >>, << 1 >>)
                  /\ \A j \in CallsOf("transform") : i < j /\ calls[j] = req
            /\ req \in DOMAIN answers
            /\ locals.coords_nad27 = << -985418020, 392240790 >>
            /\ locals.coords_wgs84 = answers[req].n
            /\ Printed(Line("Original Coordinate (NAD27 / EPSG:4267):", "",
                            392240790, -985418020))
            /\ Printed(Line("Transformed Coordinate (WGS84 / EPSG:4326):", "",
                            Fmt6(answers[req].n[2]), Fmt6(answers[req].n[1])))

C5_Witness ==
    /\ completed["shift"] = 1
    /\ locals.coords_wgs84 = << LonNad27 - ShiftStep, LatNad27 + ShiftStep >>

\* ------------------------------------------------------------- C6
\* C6: once the error calculation has returned, the process has made exactly
\* one Geod, for ellipsoid WGS84, and exactly one inverse call, on it, with
\* the second parameter (the transformed pair) as point 1 and the first
\* parameter (the original pair) as point 2, longitude before latitude; the
\* distance kept is the third component of the answer, and what the step
\* printed after its header is determined by that component alone.
C6_InverseGeodesic ==
    completed["calc"] = 1 =>
        LET req == Request("inv", << "WGS84" >>,
                           << locals.coord_wgs84[1], locals.coord_wgs84[2],
                              locals.coord_nad27[1], locals.coord_nad27[2] >>)
        IN  /\ Cardinality(CallsOf("Geod")) = 1
            /\ Cardinality(CallsOf("inv")) = 1
            /\ \A i \in CallsOf("Geod") :
                  /\ calls[i] = Request("Geod", << "WGS84" >>, << >>)
                  /\ \A j \in CallsOf("inv") : i < j /\ calls[j] = req
            /\ req \in DOMAIN answers
            /\ locals.distance_meters = answers[req].n[3]
            /\ Printed(Line("You would be off by:", "meters",
                            RoundHalfEven(answers[req].n[3], 10), 0))
            /\ \A i \in 1 .. Len(output) :
                  output[i].t \in { "You would be off by:", "(" } =>
                      /\ output[i].x # answers[req].n[1]
                      /\ output[i].x # answers[req].n[2]
                      /\ output[i].y = 0

C6_Witness ==
    /\ completed["calc"] = 1
    /\ locals.coord_wgs84 # locals.coord_nad27
    /\ locals.distance_meters = DistBase + 1

\* ------------------------------------------------------------- C7
PrintedMeters == output[PrintedAt("You would be off by:")].x
PrintedFeet == output[PrintedAt("(")].x
Abs(n) == IF n < 0 THEN 0 - n ELSE n

\* C7 (as claimed): the feet figure printed equals the meters figure printed
\* times 3.28084, rounded to 2 decimals.
C7_FeetFromPrintedMeters ==
    completed["calc"] = 1 =>
        PrintedFeet = RoundHalfEven(PrintedMeters * 328084, 100000)

\* C7 (amended): the feet figure printed is the solver's distance, unrounded,
\* times 3.28084, rounded to 2 decimals (the hundredth of a foot nearest to
\* it), and it is within 0.02 of the meters figure printed times 3.28084
\* rounded to 2 decimals.
C7_FeetFromDistance ==
    completed["calc"] = 1 =>
        LET d == locals.distance_meters
            \* 1e-8 ft, in two parts: d * 3.28 and d * 0.00084
            whole == (d * 328) \div 1000
            part == 1000 * ((d * 328) % 1000) + d * 84
            f == PrintedFeet
        IN  /\ PrintedMeters = RoundHalfEven(d, 10)
            /\ Abs(1000000 * (f - whole) - part) <= 500000
            /\ Abs(f - RoundHalfEven(PrintedMeters * 328084, 100000)) <= 2

C7_Witness ==
    /\ completed["calc"] = 1
    /\ PrintedFeet = RoundHalfEven(PrintedMeters * 328084, 100000) + 2


\* ------------------------------------------------------------- C8
\* C8: with libraries that answer a request as they answered it before, every
\* process run that has ended printed the same lines and ended with the same
\* outcome and exit status as every run before it, and a run begins with
\* nothing left over from the run before.
C8_Idempotent ==
    /\ \A i \in 1 .. Len(history) : \A j \in 1 .. Len(history) :
          history[i] = history[j]
    /\ Done => \A i \in 1 .. Len(history) :
          history[i] = [ output |-> output, outcome |-> outcome,
                         exitStatus |-> exitStatus ]
    /\ pc = "import_osr" =>
          /\ output = << >> /\ calls = << >> /\ imported = { }
          /\ locals = NoLocals /\ checks = 0
    /\ Len(history) = run - 1

C8_Witness ==
    /\ run = 2
    /\ Done
    /\ outcome = "success"
    /\ history[1].outcome = "success"
    /\ Len(output) > 20

\* ------------------------------------------------------------- C9
\* C9: once the hierarchy inspection has returned, the only code the process
\* resolved is 4326; it printed, in this order, the parent system's name and
\* code, the datum's name and code, and the ellipsoid's name and code, each
\* being what the CRS metadata service answered for that component of 4326;
\* the datum code printed is "6326" and the ellipsoid code "7030"; and the
\* step handed nothing to main.
C9_Hierarchy ==
    completed["inspect"] = 1 =>
        LET code(key) == answers[Request("GetAuthorityCode", key, << 4326 >>)].s
            name(key) == answers[Request("GetAttrValue", key, << 4326 >>)].s
        IN  /\ Cardinality(CallsOf("ImportFromEPSG")) = 1
            /\ \A i \in CallsOf("ImportFromEPSG") : calls[i].n = << 4326 >>
            /\ \E i \in 1 .. Len(calls) : calls[i] = Request("GetName", << >>, << 4326 >>)
            /\ \A key \in { << >>, << "DATUM" >>, << "SPHEROID" >> } :
                  \E i \in 1 .. Len(calls) :
                      calls[i] = Request("GetAuthorityCode", key, << 4326 >>)
            /\ \A key \in { << "DATUM" >>, << "SPHEROID" >> } :
                  \E i \in 1 .. Len(calls) :
                      calls[i] = Request("GetAttrValue", key, << 4326 >>)
            /\ \A i \in 1 .. Len(calls) :
                  calls[i].fn \in { "GetName", "GetAttrValue", "GetAuthorityCode" }
                      => calls[i].n = << 4326 >>
            /\ Printed(Line("PARENT SYSTEM:",
                            answers[Request("GetName", << >>, << 4326 >>)].s, 0, 0))
            /\ Printed(Line(" -> Authority Code:", code(<< >>), 0, 0))
            /\ Printed(Line("  -> CHILD COMPONENT (DATUM):", name(<< "DATUM" >>), 0, 0))
            /\ Printed(Line("  -> Datum Code:", code(<< "DATUM" >>), 0, 0))
            /\ Printed(Line("    -> GRANDCHILD COMPONENT (ELLIPSOID):",
                            name(<< "SPHEROID" >>), 0, 0))
            /\ Printed(Line("    -> Ellipsoid Code:", code(<< "SPHEROID" >>), 0, 0))
            /\ Printed(Line("  -> Datum Code:", "6326", 0, 0))
            /\ Printed(Line("    -> Ellipsoid Code:", "7030", 0, 0))
            /\ PrintedAt("PARENT SYSTEM:") < PrintedAt(" -> Authority Code:")
            /\ PrintedAt(" -> Authority Code:") < PrintedAt("  -> CHILD COMPONENT (DATUM):")
            /\ PrintedAt("  -> CHILD COMPONENT (DATUM):") < PrintedAt("  -> Datum Code:")
            /\ PrintedAt("  -> Datum Code:")
                  < PrintedAt("    -> GRANDCHILD COMPONENT (ELLIPSOID):")
            /\ PrintedAt("    -> GRANDCHILD COMPONENT (ELLIPSOID):")
                  < PrintedAt("    -> Ellipsoid Code:")
            /\ \A t \in { "PARENT SYSTEM:", " -> Authority Code:",
                          "  -> CHILD COMPONENT (DATUM):", "  -> Datum Code:",
                          "    -> GRANDCHILD COMPONENT (ELLIPSOID):",
                          "    -> Ellipsoid Code:" } :
                  Cardinality({ i \in 1 .. Len(output) : output[i].t = t }) = 1
            /\ pc = "shift" =>
                  /\ locals.coords_nad27 = << >> /\ locals.coords_wgs84 = << >>
                  /\ locals.coord_nad27 = << >> /\ locals.coord_wgs84 = << >>

C9_Witness ==
    /\ completed["inspect"] = 1
    /\ pc = "shift"
    /\ locals.datum_code = "6326"
    /\ locals.ellipsoid_code = "7030"

\* ------------------------------------------------------------- C10
C10_Outcomes ==
    /\ outcome \in { "running", "missing_dependency", "uncaught", "success" }
    /\ Done <=> outcome # "running"
    /\ outcome = "running" <=> exitStatus = -1
    /\ outcome = "missing_dependency" => exitStatus = 1
    /\ outcome = "success" <=> exitStatus = 0
    /\ Printed(CompleteHeader) <=> outcome = "success"
    /\ outcome = "success" <=> (Done /\ imported = Libraries /\ AllCompleted)
    /\ Printed(CompleteHeader) =>
          /\ Len(output) > 4
          /\ SubSeq(output, Len(output) - 3, Len(output))
                = << Text(""), Text("===="), CompleteHeader, Text("====") >>
          /\ Cardinality({ i \in 1 .. Len(output) : output[i] = CompleteHeader }) = 1

\* C10: a process that runs ends, in one of three ways: sys.exit(1) from the
\* import guard, an uncaught error, or success with exit status 0; it has
\* printed the SCRIPT COMPLETE header, and exits 0, exactly when it has ended
\* with all three names imported and all three steps returned, and then the
\* header is the last thing it printed.
C10_Terminates == [] C10_Outcomes /\ [] (pc # "done" => <> (pc = "done"))

C10_Witness ==
    /\ Done
    /\ outcome = "success"
    /\ exitStatus = 0
    /\ AllCompleted
    /\ output[Len(output) - 1] = CompleteHeader

=============================================================================
